---------------------------- MODULE Spec2Model ----------------------------
(***************************************************************************)
(* Model of the flocking simulation of src/src/main.rs (bevy 0.9).         *)
(*                                                                         *)
(* State: every bird's Transform.translation (x, y) and Velocity, the      *)
(* BirdConfiguration resource, and the position of the physics system set  *)
(* inside the current fixed tick.                                          *)
(*                                                                         *)
(* Numbers.  f32 values are modelled as fixed-point integers with          *)
(* resolution 1/One of a world unit, every product and quotient rounded to *)
(* the nearest representable value (sign-symmetric, as IEEE rounding is).  *)
(* A Vec2 is a record [x, y, nan].  The only way the program produces a    *)
(* non-finite value is glam's Vec2::normalize on a zero vector             *)
(* (0 * (1/0) = NaN in both components); NaN then spreads through every    *)
(* arithmetic operation and makes every comparison false.  Hence a vector  *)
(* is either finite in both components or NaN in both, which is what the   *)
(* flag nan records.  A NaN scalar (a length or distance) is NaNScalar.    *)
(*                                                                         *)
(* Scheduling.  The five physics systems are added to one SystemSet with   *)
(* .with_system only: no label, no .before/.after.  They all conflict on   *)
(* Transform or Velocity, so bevy never overlaps two of them, but it is    *)
(* free to run them in any order inside a tick.  The model lets the        *)
(* scheduler pick any system that has not yet run in the tick.             *)
(***************************************************************************)
EXTENDS Integers, Sequences, FiniteSets, TLC

VARIABLES
    phase,          \* "startup" before the startup systems ran, then "running"
    configuration,  \* the BirdConfiguration resource
    pos,            \* entity -> Transform.translation (truncated to Vec2)
    vel,            \* entity -> Velocity
    tick,           \* number of fixed ticks started
    ran,            \* physics systems that completed in the current tick, in order
    birds,          \* the `birds` vector collected by the steering system that ran last
    pos0, vel0,     \* positions / velocities when the current tick started
    alone           \* birds for which no steering system of this tick saw anyone in range

vars == <<phase, configuration, pos, vel, tick, ran, birds, pos0, vel0, alone>>

-----------------------------------------------------------------------------
(* Bounds of the model *)

NumBirds == 2

MaxTicks == 1

\* Lengths are computed exactly up to this component size; beyond it a length
\* is reported as LengthCap.  Such a length is only ever compared with a radius.
LengthCap == 30000

-----------------------------------------------------------------------------
(* Program constants *)

StepsPerSecond == 60

WindowWidth == 1600

WindowHeight == 900

-----------------------------------------------------------------------------
(* f32 arithmetic as fixed point *)

One == StepsPerSecond

Fix(n, d) == (n * One) \div d

PHYSICS_STEP == Fix(1, StepsPerSecond)

NaNScalar == 0 - 1

Abs(n) == IF n < 0 THEN 0 - n ELSE n

RoundDiv(a, b) ==
    IF a >= 0 THEN (2 * a + b) \div (2 * b)
    ELSE 0 - ((2 * (0 - a) + b) \div (2 * b))

FMul(a, b) == RoundDiv(a * b, One)

FDiv(a, b) == RoundDiv(a * One, b)

RECURSIVE SqrtSearch(_, _, _)
SqrtSearch(n, lo, hi) ==
    IF hi - lo <= 1 THEN lo
    ELSE LET mid == (lo + hi) \div 2
         IN  IF mid * mid <= n THEN SqrtSearch(n, mid, hi)
             ELSE SqrtSearch(n, lo, mid)

Sqrt(n) == SqrtSearch(n, 0, 46341)

\* a < b and a > b on f32: false when an operand is NaN
Lt(a, b) == a # NaNScalar /\ b # NaNScalar /\ a < b

Gt(a, b) == a # NaNScalar /\ b # NaNScalar /\ a > b

-----------------------------------------------------------------------------
(* glam Vec2 *)

Vec(x, y) == [x |-> x, y |-> y, nan |-> FALSE]

NaNVec == [x |-> 0, y |-> 0, nan |-> TRUE]

ZERO == Vec(0, 0)

World(x, y) == Vec(x * One, y * One)

VAdd(a, b) == IF a.nan \/ b.nan THEN NaNVec ELSE Vec(a.x + b.x, a.y + b.y)

VSub(a, b) == IF a.nan \/ b.nan THEN NaNVec ELSE Vec(a.x - b.x, a.y - b.y)

VMulS(a, s) ==
    IF a.nan \/ s = NaNScalar THEN NaNVec ELSE Vec(FMul(a.x, s), FMul(a.y, s))

\* v / s.  A finite vector divided by zero is +-Inf or NaN; the program only
\* divides by a count > 0 or by the distance of a vector it normalized before.
VDivS(a, s) ==
    IF a.nan \/ s = NaNScalar \/ s = 0 THEN NaNVec
    ELSE Vec(FDiv(a.x, s), FDiv(a.y, s))

Length(a) ==
    IF a.nan THEN NaNScalar
    ELSE IF Abs(a.x) > LengthCap \/ Abs(a.y) > LengthCap THEN LengthCap
    ELSE Sqrt(a.x * a.x + a.y * a.y)

Distance(a, b) == Length(VSub(a, b))

\* glam: self * self.length_recip(); a zero vector gives 0 * Inf = NaN
Normalize(a) ==
    LET len == Length(a)
    IN  IF a.nan \/ len = 0 THEN NaNVec
        ELSE Vec(FDiv(a.x, len), FDiv(a.y, len))

-----------------------------------------------------------------------------
(* Helpers over entities *)

Birds == 1 .. NumBirds

Range(s) == {s[i] : i \in DOMAIN s}

Entities == DOMAIN pos

\* the orders in which a Query may yield the entities
IterOrders(E) ==
    {o \in [1 .. Cardinality(E) -> E] : \A i, j \in DOMAIN o : i # j => o[i] # o[j]}

RECURSIVE VSum(_, _)
VSum(S, f) ==
    IF S = {} THEN ZERO
    ELSE LET b == CHOOSE b \in S : TRUE
         IN  VAdd(f[b], VSum(S \ {b}, f))

Steering == {"cohesion", "seperation", "alignment"}

PhysicsSystems == Steering \cup {"movement", "wrapping"}

NoBirds == [sys |-> "none", pos |-> <<>>, vel |-> <<>>]

-----------------------------------------------------------------------------
(* Configuration and window *)

BirdConfiguration ==
    [alignment         |-> Fix(1, 1),
     cohesion          |-> Fix(1, 1),
     seperation        |-> Fix(3, 2),
     speed             |-> Fix(100, 1),
     steer             |-> Fix(2, 1),
     radius            |-> Fix(32, 1),
     neighbour_radius  |-> Fix(90, 1),
     seperation_radius |-> Fix(50, 1),
     birds_amount      |-> NumBirds]

width == Fix(WindowWidth, 2)

height == Fix(WindowHeight, 2)

-----------------------------------------------------------------------------
(* The per-bird body of each steering loop.  snap is the `birds` vector the *)
(* system collected before its loop; p and v are the bird's own live        *)
(* Transform and Velocity.                                                  *)

\* steer = desired - velocity, limited to configuration.steer
LimitedSteer(desired, v) ==
    LET steer == VSub(desired, v)
    IN  IF Gt(Length(steer), configuration.steer)
        THEN VMulS(Normalize(steer), configuration.steer)
        ELSE steer

\* faulty variant: the averaging branch is entered with count = 0 as well
CohesionVelocity_CountGE0(e, snap, p, v) ==
    LET near  == {o \in DOMAIN snap \ {e} :
                     Lt(Distance(p, snap[o]), configuration.neighbour_radius)}
        count == Cardinality(near)
    IN  IF count >= 0
        THEN LET sum     == VDivS(VSum(near, snap), count * One)
                 desired == VMulS(Normalize(VSub(sum, p)), configuration.speed)
             IN  VAdd(v, VMulS(LimitedSteer(desired, v), configuration.cohesion))
        ELSE v

CohesionVelocity(e, snap, p, v) ==
    LET near  == {o \in DOMAIN snap \ {e} :
                     Lt(Distance(p, snap[o]), configuration.neighbour_radius)}
        count == Cardinality(near)
    IN  IF count > 0
        THEN LET sum     == VDivS(VSum(near, snap), count * One)
                 desired == VMulS(Normalize(VSub(sum, p)), configuration.speed)
             IN  VAdd(v, VMulS(LimitedSteer(desired, v), configuration.cohesion))
        ELSE v

\* faulty variant: the difference points at the other bird, not away from it
SeperationVelocity_Towards(e, snap, p, v) ==
    LET near  == {o \in DOMAIN snap \ {e} :
                     Lt(Distance(p, snap[o]), configuration.seperation_radius)}
        count == Cardinality(near)
        away  == [o \in near |->
                     VDivS(Normalize(VSub(snap[o], p)), Distance(p, snap[o]))]
        total == VSum(near, away)
        sum   == IF count > 0 THEN VDivS(total, count * One) ELSE total
    IN  IF Gt(Length(sum), 0)
        THEN LET desired == VMulS(Normalize(sum), configuration.speed)
             IN  VAdd(v, VMulS(LimitedSteer(desired, v), configuration.seperation))
        ELSE v

SeperationVelocity(e, snap, p, v) ==
    LET near  == {o \in DOMAIN snap \ {e} :
                     Lt(Distance(p, snap[o]), configuration.seperation_radius)}
        count == Cardinality(near)
        away  == [o \in near |->
                     VDivS(Normalize(VSub(p, snap[o])), Distance(p, snap[o]))]
        total == VSum(near, away)
        sum   == IF count > 0 THEN VDivS(total, count * One) ELSE total
    IN  IF Gt(Length(sum), 0)
        THEN LET desired == VMulS(Normalize(sum), configuration.speed)
             IN  VAdd(v, VMulS(LimitedSteer(desired, v), configuration.seperation))
        ELSE v

AlignmentVelocity(e, snap, snapVel, p, v) ==
    LET near  == {o \in DOMAIN snap \ {e} :
                     Lt(Distance(p, snap[o]), configuration.neighbour_radius)}
        count == Cardinality(near)
    IN  IF count > 0
        THEN LET sum     == VDivS(VSum(near, snapVel), count * One)
                 desired == VMulS(Normalize(sum), configuration.speed)
             IN  VAdd(v, VMulS(LimitedSteer(desired, v), configuration.alignment))
        ELSE v

\* the loops `for (entity, transform, mut velocity) in query.iter_mut()`
RECURSIVE CohesionLoop(_, _, _, _)
CohesionLoop(order, snap, p, v) ==
    IF order = <<>> THEN v
    ELSE LET e == Head(order)
         IN  CohesionLoop(Tail(order), snap, p,
                          [v EXCEPT ![e] = CohesionVelocity(e, snap, p[e], v[e])])

RECURSIVE SeperationLoop(_, _, _, _)
SeperationLoop(order, snap, p, v) ==
    IF order = <<>> THEN v
    ELSE LET e == Head(order)
         IN  SeperationLoop(Tail(order), snap, p,
                            [v EXCEPT ![e] = SeperationVelocity(e, snap, p[e], v[e])])

RECURSIVE AlignmentLoop(_, _, _, _, _)
AlignmentLoop(order, snap, snapVel, p, v) ==
    IF order = <<>> THEN v
    ELSE LET e == Head(order)
         IN  AlignmentLoop(Tail(order), snap, snapVel, p,
                           [v EXCEPT ![e] =
                               AlignmentVelocity(e, snap, snapVel, p[e], v[e])])

\* transform.translation += velocity.0 * PHYSICS_STEP
MovedTranslation(p, v) == VAdd(p, VMulS(v, PHYSICS_STEP))

\* faulty variant: a bird that left on one side is mirrored to -c, which lies
\* outside the opposite edge by as much as it had left
WrapAxis_Mirror(c, half, radius) ==
    IF c - radius > half THEN 0 - c
    ELSE IF c + radius < 0 - half THEN 0 - c
    ELSE c

WrapAxis(c, half, radius) ==
    IF c - radius > half THEN (0 - half) - radius
    ELSE IF c + radius < 0 - half THEN half + radius
    ELSE c

\* faulty variant: y is wrapped against the half width
WrappedTranslation_WidthForY(p) ==
    IF p.nan THEN p
    ELSE Vec(WrapAxis(p.x, width, configuration.radius),
             WrapAxis(p.y, width, configuration.radius))

\* every comparison with a NaN coordinate is false: the translation stays
WrappedTranslation(p) ==
    IF p.nan THEN p
    ELSE Vec(WrapAxis(p.x, width, configuration.radius),
             WrapAxis(p.y, height, configuration.radius))

\* some other bird is inside one of the two sensing radii of bird e
Crowded(e, p) ==
    \E o \in DOMAIN p \ {e} :
        \/ Lt(Distance(p[e], p[o]), configuration.neighbour_radius)
        \/ Lt(Distance(p[e], p[o]), configuration.seperation_radius)

-----------------------------------------------------------------------------
(* The physics system set *)

CanRun(system) == phase = "running" /\ tick >= 1 /\ system \notin Range(ran)

cohesion_system ==
    /\ CanRun("cohesion")
    /\ \E order \in IterOrders(Entities) :
           vel' = CohesionLoop(order, pos, pos, vel)
    /\ birds' = [sys |-> "cohesion", pos |-> pos, vel |-> <<>>]
    /\ alone' = {e \in alone : ~Crowded(e, pos)}
    /\ ran' = Append(ran, "cohesion")
    /\ UNCHANGED <<phase, configuration, pos, tick, pos0, vel0>>

seperation_system ==
    /\ CanRun("seperation")
    /\ \E order \in IterOrders(Entities) :
           vel' = SeperationLoop(order, pos, pos, vel)
    /\ birds' = [sys |-> "seperation", pos |-> pos, vel |-> <<>>]
    /\ alone' = {e \in alone : ~Crowded(e, pos)}
    /\ ran' = Append(ran, "seperation")
    /\ UNCHANGED <<phase, configuration, pos, tick, pos0, vel0>>

alignment_system ==
    /\ CanRun("alignment")
    /\ \E order \in IterOrders(Entities) :
           vel' = AlignmentLoop(order, pos, vel, pos, vel)
    /\ birds' = [sys |-> "alignment", pos |-> pos, vel |-> vel]
    /\ alone' = {e \in alone : ~Crowded(e, pos)}
    /\ ran' = Append(ran, "alignment")
    /\ UNCHANGED <<phase, configuration, pos, tick, pos0, vel0>>

movement_system ==
    /\ CanRun("movement")
    /\ pos' = [e \in Entities |-> MovedTranslation(pos[e], vel[e])]
    /\ birds' = NoBirds
    /\ ran' = Append(ran, "movement")
    /\ UNCHANGED <<phase, configuration, vel, tick, pos0, vel0, alone>>

wrapping_system ==
    /\ CanRun("wrapping")
    /\ pos' = [e \in Entities |-> WrappedTranslation(pos[e])]
    /\ birds' = NoBirds
    /\ ran' = Append(ran, "wrapping")
    /\ UNCHANGED <<phase, configuration, vel, tick, pos0, vel0, alone>>

\* the run criteria FixedTimestep::step(PHYSICS_STEP): the set runs once more
FixedTimestep ==
    /\ phase = "running"
    /\ tick < MaxTicks
    /\ tick > 0 => Range(ran) = PhysicsSystems
    /\ tick' = tick + 1
    /\ ran' = <<>>
    /\ birds' = NoBirds
    /\ pos0' = pos
    /\ vel0' = vel
    /\ alone' = Entities
    /\ UNCHANGED <<phase, configuration, pos, vel>>

-----------------------------------------------------------------------------
(* A flock in flight: the state at the start of a tick *)

\* Birds are interchangeable, so one assignment of start states per multiset
\* is enough: bird e+1 takes a start state at or after bird e's in this list.
FlockStates ==
    <<[pos |-> World(0, 0),         vel |-> World(0, 0)],
      [pos |-> World(40, 0),        vel |-> World(0, 0)],
      [pos |-> World(40, 0),        vel |-> World(3, 0 - 3)],
      [pos |-> World(832, 100),     vel |-> World(3, 0 - 3)],
      [pos |-> World(832, 0 - 482), vel |-> World(3, 0 - 3)],
      [pos |-> World(0 - 832, 482), vel |-> World(0 - 3, 3)]>>

FlockStarts ==
    {s \in [Birds -> DOMAIN FlockStates] : \A e \in Birds : e > 1 => s[e - 1] <= s[e]}

Init ==
    /\ phase = "running"
    /\ configuration = BirdConfiguration
    /\ \E start \in FlockStarts :
           /\ pos = [e \in Birds |-> FlockStates[start[e]].pos]
           /\ vel = [e \in Birds |-> FlockStates[start[e]].vel]
    /\ tick = 0
    /\ ran = <<>>
    /\ birds = NoBirds
    /\ pos0 = pos
    /\ vel0 = vel
    /\ alone = Birds

Next ==
    \/ FixedTimestep
    \/ cohesion_system
    \/ seperation_system
    \/ alignment_system
    \/ movement_system
    \/ wrapping_system

Spec == Init /\ [][Next]_vars

-----------------------------------------------------------------------------
(* Startup: the App as built by main, before the startup systems ran *)

Configurations ==
    {BirdConfiguration,
     [BirdConfiguration EXCEPT !.neighbour_radius = 0],
     [BirdConfiguration EXCEPT !.seperation_radius = 0 - Fix(50, 1)]}

\* translations inside [-width, width] x [-height, height], velocities inside
\* [-1, 1] x [-1, 1]; as for FlockStates one assignment per multiset
SpawnStates ==
    <<[pos |-> World(0, 0),         vel |-> World(0, 0)],
      [pos |-> World(40, 0),        vel |-> World(1, 0 - 1)],
      [pos |-> World(800, 0 - 450), vel |-> World(1, 1)]>>

SpawnStarts(E) ==
    {s \in [E -> DOMAIN SpawnStates] : \A e \in E : e > 1 => s[e - 1] <= s[e]}

spawn_birds ==
    /\ phase = "startup"
    /\ \E start \in SpawnStarts(1 .. configuration.birds_amount) :
           /\ pos' = [e \in DOMAIN start |-> SpawnStates[start[e]].pos]
           /\ vel' = [e \in DOMAIN start |-> SpawnStates[start[e]].vel]
    /\ phase' = "running"
    /\ UNCHANGED <<configuration, tick, ran, birds, pos0, vel0, alone>>

InitStartup ==
    /\ phase = "startup"
    /\ configuration \in Configurations
    /\ pos = <<>>
    /\ vel = <<>>
    /\ tick = 0
    /\ ran = <<>>
    /\ birds = NoBirds
    /\ pos0 = <<>>
    /\ vel0 = <<>>
    /\ alone = {}

NextStartup ==
    \/ spawn_birds
    \/ FixedTimestep
    \/ cohesion_system
    \/ seperation_system
    \/ alignment_system
    \/ movement_system
    \/ wrapping_system

SpecStartup == InitStartup /\ [][NextStartup]_vars

-----------------------------------------------------------------------------
(* Properties *)

Before(i) == {ran[j] : j \in 1 .. (i - 1)}

JustRan(system) == Len(ran) >= 1 /\ ran[Len(ran)] = system

Finite(e) == ~pos[e].nan /\ ~vel[e].nan

\* C1: in every tick movement_system runs only after cohesion_system,
\* seperation_system and alignment_system have all completed, and
\* wrapping_system only after movement_system.
C1_SteerThenMoveThenWrap ==
    \A i \in DOMAIN ran :
        /\ ran[i] = "movement" => Steering \subseteq Before(i)
        /\ ran[i] = "wrapping" => "movement" \in Before(i)

\* C2: what a steering system reads of another bird is that bird's value at
\* the start of the tick: the position it measures the distance to, and (in
\* alignment) the velocity of every neighbour it adds up.
C2_ReadsTickStartValues ==
    birds.sys # "none" =>
        \A e, o \in Entities :
            o # e =>
                /\ birds.pos[o] = pos0[o]
                /\ (/\ birds.sys = "alignment"
                    /\ Lt(Distance(pos[e], birds.pos[o]),
                          configuration.neighbour_radius))
                       => birds.vel[o] = vel0[o]

\* the tick with the systems in the order main adds them to the set
DeclaredOrderTick(p, v) ==
    LET order == [i \in 1 .. Cardinality(DOMAIN p) |-> i]
        v1 == CohesionLoop(order, p, p, v)
        v2 == SeperationLoop(order, p, p, v1)
        v3 == AlignmentLoop(order, p, v2, p, v2)
        p1 == [e \in DOMAIN p |-> MovedTranslation(p[e], v3[e])]
        p2 == [e \in DOMAIN p |-> WrappedTranslation(p1[e])]
    IN  [pos |-> p2, vel |-> v3]

\* C3: a tick has one result per starting state: whatever order the systems
\* ran in, the positions and velocities at the end of the tick are those the
\* declared order produces from the same start.
C3_OneResultPerStart ==
    Len(ran) = Cardinality(PhysicsSystems) =>
        /\ pos = DeclaredOrderTick(pos0, vel0).pos
        /\ vel = DeclaredOrderTick(pos0, vel0).vel

\* C4: no bird's position or velocity ever becomes NaN/Inf.
C4_AlwaysFinite == \A e \in Entities : Finite(e)

\* C5: a bird that no steering system of the tick found anyone in range of
\* keeps its tick-start velocity, and once movement_system ran (and before
\* wrapping_system runs) its position is the tick-start position plus
\* velocity * PHYSICS_STEP.
C5_IsolatedBirdCoasts ==
    \A e \in alone :
        /\ vel[e] = vel0[e]
        /\ ("movement" \in Range(ran) /\ "wrapping" \notin Range(ran)) =>
               IF pos0[e].nan \/ vel0[e].nan THEN pos[e].nan
               ELSE pos[e] = Vec(pos0[e].x + RoundDiv(vel0[e].x, StepsPerSecond),
                                 pos0[e].y + RoundDiv(vel0[e].y, StepsPerSecond))

C5_Witness ==
    \E e \in alone :
        /\ Steering \subseteq Range(ran)
        /\ "movement" \in Range(ran)
        /\ "wrapping" \notin Range(ran)
        /\ Finite(e)
        /\ vel0[e] # ZERO
        /\ pos[e] # pos0[e]

\* the wrap rule of one axis, from coordinate c to coordinate d
AxisWrapped(c, d, half) ==
    IF c - configuration.radius > half THEN d = (0 - half) - configuration.radius
    ELSE IF c + configuration.radius < 0 - half THEN d = half + configuration.radius
    ELSE d = c

\* C6: wrapping_system applies the wrap rule to x against W and to y against
\* H, each axis by its own rule, and changes no velocity.
C6_WrapPerAxis ==
    [][ran' = Append(ran, "wrapping") =>
          \A e \in Entities :
              /\ vel'[e] = vel[e]
              /\ IF pos[e].nan THEN pos'[e] = pos[e]
                 ELSE /\ ~pos'[e].nan
                      /\ AxisWrapped(pos[e].x, pos'[e].x, Fix(WindowWidth, 2))
                      /\ AxisWrapped(pos[e].y, pos'[e].y, Fix(WindowHeight, 2))]_vars

\* wrapping_system just moved a bird across on x and left its y alone, and
\* moved another one across on both axes
C6_Witness ==
    /\ JustRan("wrapping")
    /\ \E e \in Entities :
           /\ Finite(e)
           /\ pos[e].x = (0 - width) - configuration.radius
           /\ Abs(pos[e].y) < height
           /\ vel[e] # ZERO
    /\ \E e \in Entities :
           /\ Finite(e)
           /\ Abs(pos[e].x) = width + configuration.radius
           /\ Abs(pos[e].y) = height + configuration.radius

Sgn(n) == IF n > 0 THEN 1 ELSE IF n < 0 THEN 0 - 1 ELSE 0

\* birds a and b rest on one axis-parallel line, closer than
\* seperation_radius but not at the same place, and no third bird is inside
\* a's seperation_radius
RestingPair(a, b) ==
    /\ a # b
    /\ Finite(a) /\ Finite(b)
    /\ vel[a] = ZERO /\ vel[b] = ZERO
    /\ pos[a].x = pos[b].x \/ pos[a].y = pos[b].y
    /\ pos[a] # pos[b]
    /\ Abs(pos[a].x - pos[b].x) + Abs(pos[a].y - pos[b].y)
           < configuration.seperation_radius
    /\ configuration.speed > configuration.steer
    /\ \A o \in Entities \ {a, b} :
           ~Lt(Distance(pos[a], pos[o]), configuration.seperation_radius)

\* C7: seperation_system changes the velocity of each bird of a resting pair
\* by exactly steer * seperation, pointing away from the other bird.
C7_RestingPairRepels ==
    [][ran' = Append(ran, "seperation") =>
          \A a, b \in Entities :
              RestingPair(a, b) =>
                  vel'[a] =
                      Vec(Sgn(pos[a].x - pos[b].x)
                              * ((configuration.steer * configuration.seperation) \div One),
                          Sgn(pos[a].y - pos[b].y)
                              * ((configuration.steer * configuration.seperation) \div One))]_vars

\* the scenario of the specification: A at (0,0), B at (40,0), both at rest
C7_Witness ==
    /\ ran = <<"seperation">>
    /\ pos0[1] = World(0, 0) /\ pos0[2] = World(40, 0)
    /\ vel0[1] = ZERO /\ vel0[2] = ZERO
    /\ vel[1] = Vec(0 - 3 * One, 0)
    /\ vel[2] = Vec(3 * One, 0)

\* C8: with a radius that is not positive nothing is spawned and no tick runs.
C8_BadRadiusRejected ==
    (configuration.neighbour_radius <= 0 \/ configuration.seperation_radius <= 0)
        => (phase = "startup" /\ Entities = {} /\ tick = 0)

\* C9: once the three steering systems ran, a bird's velocity is its
\* tick-start velocity plus the three contributions, each computed from the
\* tick-start positions and velocities.
C9_SumOfTickStartContributions ==
    Steering \subseteq Range(ran) =>
        \A e \in Entities :
            vel[e] =
                VAdd(VAdd(VAdd(vel0[e],
                    VSub(CohesionVelocity(e, pos0, pos0[e], vel0[e]), vel0[e])),
                    VSub(AlignmentVelocity(e, pos0, vel0, pos0[e], vel0[e]), vel0[e])),
                    VSub(SeperationVelocity(e, pos0, pos0[e], vel0[e]), vel0[e]))

\* C10: right after wrapping_system every finite position lies inside
\* [-W - radius, W + radius] x [-H - radius, H + radius], and wrapping it
\* again leaves it where it is.
C10_WrappedInsideAndStable ==
    JustRan("wrapping") =>
        \A e \in Entities :
            ~pos[e].nan =>
                /\ (0 - Fix(WindowWidth, 2)) - configuration.radius <= pos[e].x
                /\ pos[e].x <= Fix(WindowWidth, 2) + configuration.radius
                /\ (0 - Fix(WindowHeight, 2)) - configuration.radius <= pos[e].y
                /\ pos[e].y <= Fix(WindowHeight, 2) + configuration.radius
                /\ WrappedTranslation(pos[e]) = pos[e]

\* wrapping_system just took a bird that had left on the right and at the
\* bottom to the left and top edges
C10_Witness ==
    /\ JustRan("wrapping")
    /\ "movement" \in Range(ran)
    /\ \E e \in Entities :
           /\ ~pos[e].nan
           /\ pos0[e].x > 0 /\ pos0[e].y < 0
           /\ pos[e].x = (0 - width) - configuration.radius
           /\ pos[e].y = height + configuration.radius

=============================================================================
